---- MODULE Spec2Model ----
(***************************************************************************)
(* Model of the Athena EntityManager (src/src/cluster/commands.js, lines   *)
(* 86-422): the discovery / classification / resolution pipeline that      *)
(* builds the entity collection during construction.                       *)
(***************************************************************************)
EXTENDS Integers, Sequences, FiniteSets, TLC

(***************************************************************************)
(* Bounds of the model.                                                    *)
(***************************************************************************)
MaxFiles == 3

Names == {"a", "b"}

(***************************************************************************)
(* Generic helpers.                                                        *)
(***************************************************************************)
Range(s) == {s[i] : i \in 1..Len(s)}

SeqsUpTo(S, n) == UNION {[1..k -> S] : k \in 0..n}

RECURSIVE Flatten(_)
Flatten(ss) == IF ss = <<>> THEN <<>> ELSE Head(ss) \o Flatten(Tail(ss))

(***************************************************************************)
(* Definition files.  A file's content is its name and its parsed config;  *)
(* the config carries the discriminator (type), its own name field and the *)
(* declared list of referenced child names.                                *)
(***************************************************************************)
\* Declared reference lists: every duplicate-free list of names.
RefLists == {r \in SeqsUpTo(Names, Cardinality(Names)) :
                \A i, j \in 1..Len(r) : r[i] = r[j] => i = j}

Config(t, n, r) == [type |-> t, name |-> n, refs |-> r]

\* The file contents the model draws from.  Fixtures, unclassifiable files
\* and the two suite kinds are never looked up by name, so one name each
\* suffices; runs and patterns are looked up by the name field of their
\* config, which a file may set differently from the record's own name.
FileContents ==
    {[name |-> "a", config |-> Config(t, "a", <<>>)] : t \in {"fixture", "unknown"}}
    \cup {[name |-> n, config |-> Config("test", n, <<>>)] : n \in Names}
    \cup {[name |-> "a", config |-> Config(t, "a", r)] :
            t \in {"suite", "perfSuite"}, r \in RefLists}
    \cup {[name |-> n, config |-> Config("perfRun", c, <<>>)] :
            n \in Names, c \in Names}
    \cup {[name |-> "a", config |-> Config("perfPattern", c, r)] :
            c \in Names, r \in RefLists}

Disks == SeqsUpTo(FileContents, MaxFiles)

\* TestFileEntity: the raw record {name, path, config} of one file; the path
\* is the file's position in the discovery order.
TestFileEntity(content, filePath) ==
    [name |-> content.name, path |-> filePath, config |-> content.config]

\* The six classifier predicates of ../utils.
isFixture(r) == r.config.type = "fixture"

isFunctionalTest(r) == r.config.type = "test"

isFunctionalSuite(r) == r.config.type = "suite"

isPerformanceRun(r) == r.config.type = "perfRun"

isPerformancePattern(r) == r.config.type = "perfPattern"

isPerformanceSuite(r) == r.config.type = "perfSuite"

(***************************************************************************)
(* Entities.                                                               *)
(***************************************************************************)
Entity(cls, name, path, config) ==
    [cls |-> cls, name |-> name, path |-> path, config |-> config,
     children |-> <<>>, id |-> 0]

\* The JavaScript value undefined, when stored as a list element.
Undefined == Entity("undefined", "", 0, Config("", "", <<>>))

FixtureEntity(name, path, config) == Entity("FixtureEntity", name, path, config)

FunctionalTestEntity(name, path, config) ==
    Entity("FunctionalTestEntity", name, path, config)

FunctionalSuiteEntity(name, path, config) ==
    Entity("FunctionalSuiteEntity", name, path, config)

PerformanceRunEntity(name, path, config) ==
    Entity("PerformanceRunEntity", name, path, config)

PerformancePatternEntity(name, path, config) ==
    Entity("PerformancePatternEntity", name, path, config)

PerformanceSuiteEntity(name, path, config) ==
    Entity("PerformanceSuiteEntity", name, path, config)

\* hasTestsRefs / hasPerfPatternRefs / hasPerfRunsRefs
hasRefs(e) == e.config.refs # <<>>

\* getTestsRefs / getPerfPatternsRefs / getPerfRunsRefs
getRefs(e) == e.config.refs

\* addTest / addPerformancePattern / addPerformanceRun
addChild(e, child) == [e EXCEPT !.children = Append(@, child)]

\* Array.prototype.indexOf(x) !== -1
Includes(refs, x) == \E i \in 1..Len(refs) : refs[i] = x

(***************************************************************************)
(* Object identity.  Every `new` of an entity class yields an object that  *)
(* did not exist before; id is the rank of the object among the entity     *)
(* objects created so far.  A parse creates the container first and then   *)
(* its children in attachment order, so the objects of a parsed tree are   *)
(* numbered root first, children next, each with its own children.         *)
(***************************************************************************)
\* Number of objects in a parsed tree, and in a list of parsed trees.
RECURSIVE Size(_), TotalSize(_)
Size(e) == 1 + TotalSize(e.children)

TotalSize(es) == IF es = <<>> THEN 0 ELSE Size(Head(es)) + TotalSize(Tail(es))

\* A child that is looked up in a per-record cache instead of being created.
RECURSIVE Cached(_)
Cached(e) == [e EXCEPT !.id = 0 - e.path,
                       !.children = [i \in 1..Len(e.children) |-> Cached(e.children[i])]]

Identify_Cached(e, base) ==
    [e EXCEPT !.id = base,
              !.children = [i \in 1..Len(e.children) |-> Cached(e.children[i])]]

RECURSIVE Identify(_, _), IdentifyAll(_, _)
Identify(e, base) ==
    [e EXCEPT !.id = base, !.children = IdentifyAll(e.children, base + 1)]

IdentifyAll(es, base) ==
    IF es = <<>> THEN <<>>
    ELSE <<Identify(Head(es), base)>> \o IdentifyAll(Tail(es), base + Size(Head(es)))

(***************************************************************************)
(* Log messages.                                                           *)
(***************************************************************************)
Warning(format, msg, about) == [format |-> format, msg |-> msg, about |-> about]

(***************************************************************************)
(* The persistent list operations used on this.entities.                   *)
(***************************************************************************)
\* this.entities.append(...args): the method takes one value; the first
\* spread argument is appended, and undefined when there is none.
AppendSpread(args, l) ==
    Append(l, IF args = <<>> THEN Undefined ELSE args[1])

InsertAll_Front(index, elements, l) == elements \o l

\* this.entities.insertAll(index, elements)
InsertAll(index, elements, l) ==
    SubSeq(l, 1, index) \o elements \o SubSeq(l, index + 1, Len(l))

(***************************************************************************)
(* _parseFunctionalSuite                                                   *)
(***************************************************************************)
RECURSIVE AttachTests(_, _, _)
AttachTests(inst, testRefs, pool) ==
    IF pool = <<>> THEN inst
    ELSE LET functionalTest == Head(pool) IN
         IF ~Includes(testRefs, functionalTest.name)
         THEN AttachTests(inst, testRefs, Tail(pool))
         ELSE AttachTests(
                addChild(inst, FunctionalTestEntity(functionalTest.name,
                                                    functionalTest.path,
                                                    functionalTest.config)),
                testRefs, Tail(pool))

ParseFunctionalSuite_AllTests(suite, files) ==
    LET inst == FunctionalSuiteEntity(suite.name, suite.path, suite.config) IN
    IF ~hasRefs(inst)
    THEN [entity |-> inst,
          warns |-> <<Warning("functional", "noTestRefs", suite.name)>>]
    ELSE [entity |-> AttachTests(inst, <<"a", "b">>,
                                 SelectSeq(files, isFunctionalTest)),
          warns |-> <<>>]

ParseFunctionalSuite(suite, files) ==
    LET inst == FunctionalSuiteEntity(suite.name, suite.path, suite.config) IN
    IF ~hasRefs(inst)
    THEN [entity |-> inst,
          warns |-> <<Warning("functional", "noTestRefs", suite.name)>>]
    ELSE [entity |-> AttachTests(inst, getRefs(inst),
                                 SelectSeq(files, isFunctionalTest)),
          warns |-> <<>>]

(***************************************************************************)
(* _parsePerformanceSuite                                                  *)
(***************************************************************************)
RECURSIVE AttachRuns(_, _)
AttachRuns(inst, runs) ==
    IF runs = <<>> THEN inst
    ELSE AttachRuns(addChild(inst, PerformanceRunEntity(Head(runs).name,
                                                        Head(runs).path,
                                                        Head(runs).config)),
                    Tail(runs))

\* Body of the loop over onlyAssociatedPerfPatterns, for one pattern record.
ParsePerformancePattern(perfPattern, files) ==
    LET inst == PerformancePatternEntity(perfPattern.name, perfPattern.path,
                                         perfPattern.config)
        assoc(entity) == isPerformanceRun(entity)
                         /\ Includes(getRefs(inst), entity.config.name)
    IN IF hasRefs(inst)
       THEN [entity |-> AttachRuns(inst, SelectSeq(files, assoc)),
             warns |-> <<>>]
       ELSE [entity |-> inst,
             warns |-> <<Warning("performance", "noRunRefs", perfPattern.name)>>]

RECURSIVE AttachPatterns(_, _, _)
AttachPatterns(acc, patterns, files) ==
    IF patterns = <<>> THEN acc
    ELSE LET p == ParsePerformancePattern(Head(patterns), files) IN
         AttachPatterns([entity |-> addChild(acc.entity, p.entity),
                         warns |-> acc.warns \o p.warns],
                        Tail(patterns), files)

\* Declared names of inst for which no record of the given kind exists.
UnmatchedRefs(inst, files, isKind(_)) ==
    LET missing(n) == ~\E i \in 1..Len(files) :
                          isKind(files[i]) /\ files[i].config.name = n
    IN SelectSeq(getRefs(inst), missing)

ParsePerformanceSuite_WarnUnresolved(suite, files) ==
    LET inst == PerformanceSuiteEntity(suite.name, suite.path, suite.config)
        assoc(entity) == isPerformancePattern(entity)
                         /\ Includes(getRefs(inst), entity.config.name)
        unmatched == UnmatchedRefs(inst, files, isPerformancePattern)
        parsed == AttachPatterns([entity |-> inst, warns |-> <<>>],
                                 SelectSeq(files, assoc), files)
    IN IF hasRefs(inst)
       THEN [entity |-> parsed.entity,
             warns |-> parsed.warns \o
                       [i \in 1..Len(unmatched) |->
                          Warning("performance", "unresolvedRef", suite.name)]]
       ELSE [entity |-> inst,
             warns |-> <<Warning("performance", "noPatternRefs", suite.name)>>]

ParsePerformanceSuite_NoWarn(suite, files) ==
    LET inst == PerformanceSuiteEntity(suite.name, suite.path, suite.config)
        assoc(entity) == isPerformancePattern(entity)
                         /\ Includes(getRefs(inst), entity.config.name)
    IN IF hasRefs(inst)
       THEN AttachPatterns([entity |-> inst, warns |-> <<>>],
                           SelectSeq(files, assoc), files)
       ELSE [entity |-> inst, warns |-> <<>>]

ParsePerformanceSuite(suite, files) ==
    LET inst == PerformanceSuiteEntity(suite.name, suite.path, suite.config)
        assoc(entity) == isPerformancePattern(entity)
                         /\ Includes(getRefs(inst), entity.config.name)
    IN IF hasRefs(inst)
       THEN AttachPatterns([entity |-> inst, warns |-> <<>>],
                           SelectSeq(files, assoc), files)
       ELSE [entity |-> inst,
             warns |-> <<Warning("performance", "noPatternRefs", suite.name)>>]

(***************************************************************************)
(* Cluster commands: callClusterCommand (commands.js, lines 1-38).         *)
(***************************************************************************)
VARIABLES
    clusterPc,      \* where the calling process is in callClusterCommand
    command,        \* the arguments callClusterCommand was called with
    connected,      \* the callback given to pm2.connect has fired
    sent,           \* messages handed to pm2.sendDataToProcessId, in order
    sendOutcome,    \* what the send callback reported
    thrown,         \* the error thrown out of the send callback
    exitCode        \* the code the process exited with

clusterVars == <<clusterPc, command, connected, sent, sendOutcome, thrown, exitCode>>

MESSAGE_TOPIC == "ATHENA_CLUSTER_COMMAND"

NoCommand == [messageType |-> "", data |-> ""]

NoError == "<none>"

Running == -1

\* callClusterCommand has not been called.
ClusterInit ==
    /\ clusterPc = "idle"
    /\ command = NoCommand
    /\ connected = FALSE
    /\ sent = <<>>
    /\ sendOutcome = "pending"
    /\ thrown = NoError
    /\ exitCode = Running

(***************************************************************************)
(* Storage (src/src/storage/index.js): storing and deleting documents.     *)
(***************************************************************************)
VARIABLES
    storageCalls,   \* the Storage operations called so far, with the state
                    \* of the client call each one makes
    storageLog      \* calls made to the storage logger, in order

storageVars == <<storageCalls, storageLog>>

\* No Storage operation has been called.
StorageInit ==
    /\ storageCalls = <<>>
    /\ storageLog = <<>>

(***************************************************************************)
(* State.                                                                  *)
(***************************************************************************)
VARIABLES
    disk,                  \* contents of the definition files, in glob order
    pc,                    \* position inside the constructor/_parseEntities
    testFiles,             \* this.testFiles
    entities,              \* this.entities
    log,                   \* calls made to this.log.warn, in order
    onlyFixtures,          \* the array built by _parseFixtures
    onlyFunctionalSuites,  \* the array built by _parseFunctionalTests
    performanceSuites,     \* the array built by _parsePerformanceTests
    allocated,             \* number of entity objects created so far
    loadError,             \* a definition file failed to load or parse
    calls,                 \* number of query calls made on the manager
    lastCall,              \* the latest query call and what it returned
    history                \* every query call made so far, with its result

queryVars == <<calls, lastCall, history>>

\* The state of the parts of the program an EntityManager step leaves alone.
outside == <<queryVars, clusterVars, storageVars>>

vars == <<disk, pc, testFiles, entities, log, onlyFixtures,
          onlyFunctionalSuites, performanceSuites, allocated, loadError,
          outside>>

NoCall == [op |-> "none", argument |-> "", value |-> "", result |-> <<>>,
           warned |-> 0]

\* No query has been made.
QueryInit ==
    /\ calls = 0
    /\ lastCall = NoCall
    /\ history = {}

\* The constructor up to the call of _parseEntities.
Init ==
    /\ disk \in Disks
    /\ pc = "constructed"
    /\ testFiles = <<>>
    /\ entities = <<>>
    /\ log = <<>>
    /\ onlyFixtures = <<>>
    /\ onlyFunctionalSuites = <<>>
    /\ performanceSuites = <<>>
    /\ allocated = 0
    /\ loadError = FALSE
    /\ QueryInit
    /\ ClusterInit
    /\ StorageInit

\* _getTestFiles
GetTestFiles == [i \in 1..Len(disk) |-> i]

\* _parseAllTestFiles, every file loads.
ParseAllTestFiles ==
    /\ pc = "constructed"
    /\ testFiles' = [i \in 1..Len(GetTestFiles) |->
                        TestFileEntity(disk[GetTestFiles[i]], GetTestFiles[i])]
    /\ pc' = "loaded"
    /\ UNCHANGED <<disk, entities, log, onlyFixtures, onlyFunctionalSuites,
                   performanceSuites, allocated, loadError>>
    /\ UNCHANGED outside

\* _parseAllTestFiles with the failure of a file caught and ignored.
ParseAllTestFilesThrows_Swallowed ==
    /\ pc = "constructed"
    /\ Len(disk) > 0
    /\ loadError' = TRUE
    /\ pc' = "loaded"
    /\ UNCHANGED <<disk, testFiles, entities, log, onlyFixtures,
                   onlyFunctionalSuites, performanceSuites, allocated>>
    /\ UNCHANGED outside

\* _parseAllTestFiles, the TestFileEntity constructor throws on some file:
\* the exception leaves _parseEntities and the constructor.
ParseAllTestFilesThrows ==
    /\ pc = "constructed"
    /\ Len(disk) > 0
    /\ loadError' = TRUE
    /\ pc' = "aborted"
    /\ UNCHANGED <<disk, testFiles, entities, log, onlyFixtures,
                   onlyFunctionalSuites, performanceSuites, allocated>>
    /\ UNCHANGED outside

\* _parseFixtures
ParseFixtures ==
    /\ pc = "loaded"
    /\ LET only == SelectSeq(testFiles, isFixture)
           created == [i \in 1..Len(only) |->
                        FixtureEntity(only[i].name, only[i].path, only[i].config)]
           mapped == IdentifyAll(created, allocated + 1)
       IN /\ onlyFixtures' = mapped
          /\ allocated' = allocated + TotalSize(mapped)
          /\ entities' = AppendSpread(mapped, entities)
    /\ pc' = "fixtures"
    /\ UNCHANGED <<disk, testFiles, log, onlyFunctionalSuites, performanceSuites,
                   loadError>>
    /\ UNCHANGED outside

\* _parseFunctionalTests
ParseFunctionalTests ==
    /\ pc = "fixtures"
    /\ LET only == SelectSeq(testFiles, isFunctionalSuite)
           mapped == [i \in 1..Len(only) |-> ParseFunctionalSuite(only[i], testFiles)]
           suites == IdentifyAll([i \in 1..Len(only) |-> mapped[i].entity],
                                 allocated + 1)
       IN /\ onlyFunctionalSuites' = suites
          /\ allocated' = allocated + TotalSize(suites)
          /\ log' = log \o Flatten([i \in 1..Len(only) |-> mapped[i].warns])
          /\ entities' = AppendSpread(suites, entities)
    /\ pc' = "functional"
    /\ UNCHANGED <<disk, testFiles, onlyFixtures, performanceSuites, loadError>>
    /\ UNCHANGED outside

\* _parsePerformanceTests
ParsePerformanceTests ==
    /\ pc = "functional"
    /\ LET only == SelectSeq(testFiles, isPerformanceSuite)
           mapped == [i \in 1..Len(only) |-> ParsePerformanceSuite(only[i], testFiles)]
           suites == IdentifyAll([i \in 1..Len(only) |-> mapped[i].entity],
                                 allocated + 1)
       IN /\ performanceSuites' = suites
          /\ allocated' = allocated + TotalSize(suites)
          /\ log' = log \o Flatten([i \in 1..Len(only) |-> mapped[i].warns])
          /\ entities' = InsertAll(Len(entities), suites, entities)
    /\ pc' = "done"
    /\ UNCHANGED <<disk, testFiles, onlyFixtures, onlyFunctionalSuites, loadError>>
    /\ UNCHANGED outside

Next ==
    \/ ParseAllTestFiles
    \/ ParseAllTestFilesThrows
    \/ ParseFixtures
    \/ ParseFunctionalTests
    \/ ParsePerformanceTests

Spec == Init /\ [][Next]_vars

(***************************************************************************)
(* Query methods.                                                          *)
(***************************************************************************)
HasClass(e, cls) == e # Undefined /\ e.cls = cls

\* getAllFunctionalSuites
GetAllFunctionalSuites ==
    LET keep(e) == HasClass(e, "FunctionalSuiteEntity") IN SelectSeq(entities, keep)

\* getAllPerformanceSuites
GetAllPerformanceSuites ==
    LET keep(e) == HasClass(e, "PerformanceSuiteEntity") IN SelectSeq(entities, keep)

\* getAllFixtures(true)
GetAllFixtures ==
    LET keep(e) == HasClass(e, "FixtureEntity") IN SelectSeq(entities, keep)

\* entity.hasNoSuiteRefs()
hasNoSuiteRefs(e) == e.config.refs = <<>>

\* getIndieFunctionalTests
GetIndieFunctionalTests ==
    LET keep(e) == isFunctionalTest(e) /\ hasNoSuiteRefs(e) IN SelectSeq(entities, keep)

\* The value undefined, as the result of reading a field a config lacks.
Absent == "<undefined>"

\* config[argument]
Field(config, argument) ==
    IF argument \in DOMAIN config THEN config[argument] ELSE Absent

\* JavaScript truthiness of a string or of undefined.
Truthy(v) == v \notin {"", Absent}

\* getFunctionalSuiteBy(argument, value): the first matching suite (a list
\* of one element) or nothing (the empty list), and the warnings logged.
GetFunctionalSuiteBy(argument, value) ==
    LET all == GetAllFunctionalSuites
        matches(functionalSuite) ==
            IF Truthy(Field(functionalSuite.config, argument))
            THEN Field(functionalSuite.config, argument) = value
            ELSE FALSE
        unknown(functionalSuite) == ~Truthy(Field(functionalSuite.config, argument))
        found == SelectSeq(all, matches)
        skipped == SelectSeq(all, unknown)
    IN [result |-> IF found = <<>> THEN <<>> ELSE <<found[1]>>,
        warns |-> [i \in 1..Len(skipped) |->
                     Warning("query", "noArgument", argument)]]

(***************************************************************************)
(* Query calls on a constructed manager.                                   *)
(***************************************************************************)
MaxQueries == 2

QueryArguments == {"name", "type", "owner"}

QueryValues == {"", "a", "suite"}

\* The files of the directories that are queried.
QueryFileContents ==
    {[name |-> "a", config |-> Config("suite", c, r)] :
        c \in {"", "a"}, r \in {<<>>, <<"a">>}}
    \cup {[name |-> "a", config |-> Config(t, "a", <<>>)] :
            t \in {"fixture", "test", "perfSuite"}}

QueryDisks == SeqsUpTo(QueryFileContents, MaxFiles)

\* A query call returns: what the caller and the log see of it.
Returns(op, argument, value, result, warns) ==
    /\ calls' = calls + 1
    /\ lastCall' = [op |-> op, argument |-> argument, value |-> value,
                    result |-> result, warned |-> Len(warns)]
    /\ history' = history \cup {[op |-> op, argument |-> argument,
                                 value |-> value, result |-> result]}
    /\ log' = log \o warns
    /\ UNCHANGED <<clusterVars, storageVars>>

CallGetAllFunctionalSuites ==
    /\ pc = "done"
    /\ calls < MaxQueries
    /\ Returns("getAllFunctionalSuites", "", "", GetAllFunctionalSuites, <<>>)
    /\ UNCHANGED <<disk, pc, testFiles, entities, onlyFixtures,
                   onlyFunctionalSuites, performanceSuites, allocated,
                   loadError>>

CallGetAllPerformanceSuites ==
    /\ pc = "done"
    /\ calls < MaxQueries
    /\ Returns("getAllPerformanceSuites", "", "", GetAllPerformanceSuites, <<>>)
    /\ UNCHANGED <<disk, pc, testFiles, entities, onlyFixtures,
                   onlyFunctionalSuites, performanceSuites, allocated,
                   loadError>>

\* getAllFixtures taking the fixtures out of the collection it reads.
CallGetAllFixtures_Consuming ==
    /\ pc = "done"
    /\ calls < MaxQueries
    /\ Returns("getAllFixtures", "", "", GetAllFixtures, <<>>)
    /\ entities' = SelectSeq(entities, LAMBDA e : ~HasClass(e, "FixtureEntity"))
    /\ UNCHANGED <<disk, pc, testFiles, onlyFixtures,
                   onlyFunctionalSuites, performanceSuites, allocated,
                   loadError>>

CallGetAllFixtures ==
    /\ pc = "done"
    /\ calls < MaxQueries
    /\ Returns("getAllFixtures", "", "", GetAllFixtures, <<>>)
    /\ UNCHANGED <<disk, pc, testFiles, entities, onlyFixtures,
                   onlyFunctionalSuites, performanceSuites, allocated,
                   loadError>>

CallGetIndieFunctionalTests ==
    /\ pc = "done"
    /\ calls < MaxQueries
    /\ Returns("getIndieFunctionalTests", "", "", GetIndieFunctionalTests, <<>>)
    /\ UNCHANGED <<disk, pc, testFiles, entities, onlyFixtures,
                   onlyFunctionalSuites, performanceSuites, allocated,
                   loadError>>

CallGetFunctionalSuiteBy(argument, value) ==
    /\ pc = "done"
    /\ calls < MaxQueries
    /\ LET r == GetFunctionalSuiteBy(argument, value)
       IN Returns("getFunctionalSuiteBy", argument, value, r.result, r.warns)
    /\ UNCHANGED <<disk, pc, testFiles, entities, onlyFixtures,
                   onlyFunctionalSuites, performanceSuites, allocated,
                   loadError>>

InitQuery ==
    /\ disk \in QueryDisks
    /\ pc = "constructed"
    /\ testFiles = <<>>
    /\ entities = <<>>
    /\ log = <<>>
    /\ onlyFixtures = <<>>
    /\ onlyFunctionalSuites = <<>>
    /\ performanceSuites = <<>>
    /\ allocated = 0
    /\ loadError = FALSE
    /\ QueryInit
    /\ ClusterInit
    /\ StorageInit

NextQuery ==
    \/ ParseAllTestFiles
    \/ ParseAllTestFilesThrows
    \/ ParseFixtures
    \/ ParseFunctionalTests
    \/ ParsePerformanceTests
    \/ CallGetAllFunctionalSuites
    \/ CallGetAllPerformanceSuites
    \/ CallGetAllFixtures
    \/ CallGetIndieFunctionalTests
    \/ \E argument \in QueryArguments, value \in QueryValues :
          CallGetFunctionalSuiteBy(argument, value)

SpecQuery == InitQuery /\ [][NextQuery]_vars

(***************************************************************************)
(* callClusterCommand and its callbacks.                                   *)
(***************************************************************************)
managerVars == <<disk, pc, testFiles, entities, log, onlyFixtures,
                 onlyFunctionalSuites, performanceSuites, allocated, loadError>>

\* No EntityManager is being constructed.
ManagerIdle ==
    /\ disk = <<>>
    /\ pc = "constructed"
    /\ testFiles = <<>>
    /\ entities = <<>>
    /\ log = <<>>
    /\ onlyFixtures = <<>>
    /\ onlyFunctionalSuites = <<>>
    /\ performanceSuites = <<>>
    /\ allocated = 0
    /\ loadError = FALSE

MessageTypes == {"STOP", "SCALE", "RUN", "STATUS", "RELOAD"}

CommandData == {"", "agent-1", "agent-2", "suite-a", "suite-b"}

SendErrors == {"ENOENT", "EPIPE"}

\* _makeMessage
MakeMessage(type, data) ==
    [id |-> 0, topic |-> MESSAGE_TOPIC, type |-> type, data |-> data]

\* callClusterCommand: registers the connect callback with pm2.connect.
CallClusterCommand(messageType, data) ==
    /\ clusterPc = "idle"
    /\ command' = [messageType |-> messageType, data |-> data]
    /\ clusterPc' = "connecting"
    /\ UNCHANGED <<connected, sent, sendOutcome, thrown, exitCode>>
    /\ UNCHANGED <<managerVars, queryVars, storageVars>>

\* The connect callback fires and runs _sendManagerCommand, which hands the
\* message and _handleError to pm2.sendDataToProcessId.
SendManagerCommand ==
    /\ clusterPc = "connecting"
    /\ connected' = TRUE
    /\ sent' = Append(sent, MakeMessage(command.messageType, [data |-> command.data]))
    /\ clusterPc' = "sending"
    /\ UNCHANGED <<command, sendOutcome, thrown, exitCode>>
    /\ UNCHANGED <<managerVars, queryVars, storageVars>>

\* _handleError that exits whatever the send callback reports.
HandleError_AlwaysExit(error) ==
    /\ clusterPc = "sending"
    /\ sendOutcome' = IF error = NoError THEN "ok" ELSE "error"
    /\ exitCode' = 0
    /\ clusterPc' = "exited"
    /\ UNCHANGED <<command, connected, sent, thrown>>
    /\ UNCHANGED <<managerVars, queryVars, storageVars>>

\* _handleError, the send callback: throws the error it is given, otherwise
\* process.exit(0).
HandleError(error) ==
    /\ clusterPc = "sending"
    /\ IF error # NoError
       THEN /\ sendOutcome' = "error"
            /\ thrown' = error
            /\ clusterPc' = "thrown"
            /\ UNCHANGED exitCode
       ELSE /\ sendOutcome' = "ok"
            /\ exitCode' = 0
            /\ clusterPc' = "exited"
            /\ UNCHANGED thrown
    /\ UNCHANGED <<command, connected, sent>>
    /\ UNCHANGED <<managerVars, queryVars, storageVars>>

InitCluster == ManagerIdle /\ QueryInit /\ ClusterInit /\ StorageInit

NextCluster ==
    \/ \E messageType \in MessageTypes, data \in CommandData :
          CallClusterCommand(messageType, data)
    \/ SendManagerCommand
    \/ \E error \in SendErrors \cup {NoError} : HandleError(error)

SpecCluster == InitCluster /\ [][NextCluster]_vars

(***************************************************************************)
(* Storage operations.  An operation logs, starts its client call and      *)
(* awaits it; when the call settles the rest of the operation runs.        *)
(***************************************************************************)
MaxOps == 2

AgentIds == {"agent-1", "agent-2"}

\* One call of log.info / log.warn / log.success, made by operation `call`.
LogEntry(level, call) == [level |-> level, call |-> call]

\* The operation enters its await on the client call.
Awaits(op, arg) ==
    /\ Len(storageCalls) < MaxOps
    /\ storageCalls' = Append(storageCalls,
                              [op |-> op, arg |-> arg, client |-> "pending"])
    /\ storageLog' = Append(storageLog, LogEntry("info", Len(storageCalls) + 1))
    /\ UNCHANGED <<managerVars, queryVars, clusterVars>>

\* storeAgent up to the await of client.index inside store.
StoreAgent(agent) == Awaits("storeAgent", agent)

\* deleteAgentById up to the await of client.deleteByQuery.
DeleteAgentById(id) == Awaits("deleteAgentById", id)

\* storeReport up to the await of client.index inside store.
StoreReport(report) == Awaits("storeReport", report)

\* What the operation logs after its client call settled: the catch block
\* warns when the call failed, and the statement after the try logs success.
AfterAwait(op, call, failed) ==
    (IF failed THEN <<LogEntry("warn", call)>> ELSE <<>>)
    \o (IF op \in {"storeAgent", "deleteAgentById"}
        THEN <<LogEntry("success", call)>> ELSE <<>>)

\* The client call of operation `call` resolves.
ClientResolves(call) ==
    /\ call \in 1..Len(storageCalls)
    /\ storageCalls[call].client = "pending"
    /\ storageCalls' = [storageCalls EXCEPT ![call].client = "ok"]
    /\ storageLog' = storageLog \o AfterAwait(storageCalls[call].op, call, FALSE)
    /\ UNCHANGED <<managerVars, queryVars, clusterVars>>

\* The client call of operation `call` rejects.
ClientRejects(call) ==
    /\ call \in 1..Len(storageCalls)
    /\ storageCalls[call].client = "pending"
    /\ storageCalls' = [storageCalls EXCEPT ![call].client = "failed"]
    /\ storageLog' = storageLog \o AfterAwait(storageCalls[call].op, call, TRUE)
    /\ UNCHANGED <<managerVars, queryVars, clusterVars>>

InitStorage == ManagerIdle /\ QueryInit /\ ClusterInit /\ StorageInit

NextStorage ==
    \/ \E agent \in AgentIds : StoreAgent(agent)
    \/ \E id \in AgentIds : DeleteAgentById(id)
    \/ \E report \in AgentIds : StoreReport(report)
    \/ \E call \in 1..MaxOps : ClientResolves(call)
    \/ \E call \in 1..MaxOps : ClientRejects(call)

SpecStorage == InitStorage /\ [][NextStorage]_vars

(***************************************************************************)
(* Vocabulary of the properties.                                           *)
(***************************************************************************)
FixtureRecords == SelectSeq(testFiles, isFixture)

FunctionalSuiteRecords == SelectSeq(testFiles, isFunctionalSuite)

PerformanceSuiteRecords == SelectSeq(testFiles, isPerformanceSuite)

AfterFixtures == pc \in {"fixtures", "functional", "done"}

AfterFunctional == pc \in {"functional", "done"}

Constructed == pc = "done"

\* s holds one entity of class cls per record of recs, in the same order.
OnePerRecord(s, recs, cls) ==
    /\ Len(s) = Len(recs)
    /\ \A i \in 1..Len(s) :
         /\ i <= Len(recs)
         /\ s[i].cls = cls
         /\ s[i].path = recs[i].path
         /\ s[i].name = recs[i].name

\* Number of entries of the log with the given message and subject.
CountWarnings(msg, about) ==
    Cardinality({i \in 1..Len(log) : log[i].msg = msg /\ log[i].about = about})

CountRecords(recs, name) ==
    Cardinality({i \in 1..Len(recs) : recs[i].name = name /\ recs[i].config.refs = <<>>})

(***************************************************************************)
(* C1: after the fixture phase the collection holds exactly one Fixture    *)
(* entity per record classified fixture, in discovery order, and           *)
(* getAllFixtures(true) has as many elements as there are such records.    *)
(***************************************************************************)
C1_OneFixturePerRecord ==
    AfterFixtures => OnePerRecord(GetAllFixtures, FixtureRecords, "FixtureEntity")

(***************************************************************************)
(* C2: after _parseFunctionalTests, getAllFunctionalSuites returns exactly *)
(* one Functional Suite per record classified functionalSuite, in          *)
(* discovery order.                                                        *)
(***************************************************************************)
C2_OneFunctionalSuitePerRecord ==
    AfterFunctional =>
        OnePerRecord(GetAllFunctionalSuites, FunctionalSuiteRecords,
                     "FunctionalSuiteEntity")

(***************************************************************************)
(* C3: after construction every record classified performanceRun has a     *)
(* standalone Performance Run entity in the top-level collection.          *)
(***************************************************************************)
C3_StandalonePerfRuns ==
    Constructed =>
        \A i \in 1..Len(testFiles) :
            isPerformanceRun(testFiles[i]) =>
                \E j \in 1..Len(entities) :
                    /\ entities[j].cls = "PerformanceRunEntity"
                    /\ entities[j].path = testFiles[i].path

(***************************************************************************)
(* C4: fixtures precede functional suites, which precede performance       *)
(* suites; within a kind the entities are in discovery order; and every    *)
(* step only appends to the collection, leaving earlier elements in place. *)
(***************************************************************************)
PhaseRank(e) ==
    CASE e.cls = "FixtureEntity" -> 1
      [] e.cls = "FunctionalSuiteEntity" -> 2
      [] e.cls = "PerformanceSuiteEntity" -> 3
      [] OTHER -> 0

PhaseOrdered ==
    \A i, j \in 1..Len(entities) :
        (i < j /\ PhaseRank(entities[i]) > 0 /\ PhaseRank(entities[j]) > 0) =>
            /\ PhaseRank(entities[i]) <= PhaseRank(entities[j])
            /\ PhaseRank(entities[i]) = PhaseRank(entities[j]) =>
                   entities[i].path < entities[j].path

AppendOnly ==
    /\ Len(entities') >= Len(entities)
    /\ SubSeq(entities', 1, Len(entities)) = entities

C4_PhaseOrderAppendOnly == []PhaseOrdered /\ [][AppendOnly]_vars

C4_Witness ==
    /\ Constructed
    /\ \E i, j, k \in 1..Len(entities) :
         /\ entities[i].cls = "FixtureEntity"
         /\ entities[j].cls = "FunctionalSuiteEntity"
         /\ entities[k].cls = "PerformanceSuiteEntity"

(***************************************************************************)
(* C5: every element of the collection is a Fixture, a Performance Run, a  *)
(* Functional Suite or a Performance Suite; never an undefined             *)
(* placeholder, a Functional Test or a Performance Pattern.                *)
(***************************************************************************)
TopLevelKinds == {"FixtureEntity", "PerformanceRunEntity",
                  "FunctionalSuiteEntity", "PerformanceSuiteEntity"}

C5_OnlyTopLevelEntities ==
    \A i \in 1..Len(entities) : entities[i].cls \in TopLevelKinds

(***************************************************************************)
(* C6: for a functional suite declaring the test references R, the         *)
(* resolved tests are exactly the records classified functionalTest whose  *)
(* name is in R, in discovery order, one Functional Test entity each; a    *)
(* name of R without a record contributes nothing.                         *)
(***************************************************************************)
ReferencedTests(R) ==
    LET wanted(r) == isFunctionalTest(r) /\ r.name \in Range(R)
    IN SelectSeq(testFiles, wanted)

C6_ResolvedTests ==
    AfterFunctional =>
        /\ Len(onlyFunctionalSuites) = Len(FunctionalSuiteRecords)
        /\ \A i \in 1..Len(onlyFunctionalSuites) :
             LET suite == onlyFunctionalSuites[i]
                 R == FunctionalSuiteRecords[i].config.refs
                 expected == ReferencedTests(R)
             IN R # <<>> =>
                  /\ suite.path = FunctionalSuiteRecords[i].path
                  /\ Len(suite.children) = Len(expected)
                  /\ \A k \in 1..Len(suite.children) :
                       /\ k <= Len(expected)
                       /\ suite.children[k].cls = "FunctionalTestEntity"
                       /\ suite.children[k].name = expected[k].name
                       /\ suite.children[k].path = expected[k].path
                       /\ suite.children[k].config = expected[k].config

\* A suite declaring [b, a] whose tests were discovered as a, then b.
C6_Witness ==
    /\ Constructed
    /\ \E i \in 1..Len(onlyFunctionalSuites) :
         LET suite == onlyFunctionalSuites[i] IN
         /\ suite.config.refs = <<"b", "a">>
         /\ Len(suite.children) = 2
         /\ suite.children[1].name = "a"
         /\ suite.children[2].name = "b"

(***************************************************************************)
(* C7: a performance suite declaring the pattern names P holds exactly one *)
(* Performance Pattern entity per record classified performancePattern     *)
(* whose record name is in P, and each such pattern declaring the run      *)
(* names Q holds exactly one Performance Run entity per record classified  *)
(* performanceRun whose record name is in Q.                               *)
(***************************************************************************)
PatternsNamed(P) ==
    LET wanted(r) == isPerformancePattern(r) /\ r.name \in Range(P)
    IN SelectSeq(testFiles, wanted)

RunsNamed(Q) ==
    LET wanted(r) == isPerformanceRun(r) /\ r.name \in Range(Q)
    IN SelectSeq(testFiles, wanted)

C7_ResolvedByRecordName ==
    Constructed =>
        \A i \in 1..Len(performanceSuites) :
            LET suite == performanceSuites[i]
                P == suite.config.refs
            IN P # <<>> =>
                 /\ OnePerRecord(suite.children, PatternsNamed(P),
                                 "PerformancePatternEntity")
                 /\ \A k \in 1..Len(suite.children) :
                      LET Q == suite.children[k].config.refs IN
                      Q # <<>> =>
                          OnePerRecord(suite.children[k].children, RunsNamed(Q),
                                       "PerformanceRunEntity")

(***************************************************************************)
(* Unresolved and missing references.                                      *)
(***************************************************************************)
\* Some declared name of e matches no record of the given kind.
HasUnresolvedRef(e, isKind(_), nameOf(_)) ==
    \E n \in Range(e.config.refs) :
        ~\E i \in 1..Len(testFiles) :
            isKind(testFiles[i]) /\ nameOf(testFiles[i]) = n

RecordName(r) == r.name

ConfigName(r) == r.config.name

\* The Performance Pattern entities attached to some performance suite.
AttachedPatterns ==
    {<<i, k>> \in (1..Len(performanceSuites)) \X (1..MaxFiles + 1) :
        k <= Len(performanceSuites[i].children)}

PatternAt(ik) == performanceSuites[ik[1]].children[ik[2]]

MissingListMsgs == {"noTestRefs", "noPatternRefs", "noRunRefs"}

EmptyListed(recs) == Cardinality({i \in 1..Len(recs) : recs[i].config.refs = <<>>})

(***************************************************************************)
(* C8 as stated: an unresolved reference never fails; an unresolved test   *)
(* reference is not logged, while an unresolved pattern reference of a     *)
(* performance suite and an unresolved run reference of a pattern are each *)
(* logged as a warning.                                                    *)
(***************************************************************************)
C8_WarnsOnUnresolvedPerfRefs ==
    Constructed =>
        /\ \A i \in 1..Len(log) :
             log[i].format = "functional" => log[i].msg = "noTestRefs"
        /\ \A i \in 1..Len(performanceSuites) :
             HasUnresolvedRef(performanceSuites[i], isPerformancePattern, ConfigName) =>
                 \E j \in 1..Len(log) :
                     /\ log[j].msg \notin MissingListMsgs
                     /\ log[j].about = performanceSuites[i].name
        /\ \A ik \in AttachedPatterns :
             HasUnresolvedRef(PatternAt(ik), isPerformanceRun, ConfigName) =>
                 \E j \in 1..Len(log) :
                     /\ log[j].msg \notin MissingListMsgs
                     /\ log[j].about = PatternAt(ik).name

(***************************************************************************)
(* C8 amended: an unresolved reference is skipped without failing and      *)
(* without any log at every level (test, pattern and run references        *)
(* alike); the only warnings are the ones for containers that declare no   *)
(* children at all, one per such container.                                *)
(***************************************************************************)
C8_UnresolvedSkippedSilently ==
    /\ pc = "aborted" => testFiles = <<>>
    /\ \A i \in 1..Len(log) : log[i].msg \in MissingListMsgs
    /\ Constructed =>
         Len(log) = EmptyListed(FunctionalSuiteRecords)
                    + EmptyListed(PerformanceSuiteRecords)
                    + Cardinality({ik \in AttachedPatterns :
                                     PatternAt(ik).config.refs = <<>>})

C8_Witness ==
    /\ Constructed
    /\ \E i \in 1..Len(onlyFunctionalSuites) :
         HasUnresolvedRef(onlyFunctionalSuites[i], isFunctionalTest, RecordName)
    /\ \E i \in 1..Len(performanceSuites) :
         HasUnresolvedRef(performanceSuites[i], isPerformancePattern, ConfigName)
    /\ \E ik \in AttachedPatterns :
         HasUnresolvedRef(PatternAt(ik), isPerformanceRun, ConfigName)

(***************************************************************************)
(* C9: a performance suite declaring no pattern references yields a        *)
(* Performance Suite entity with no patterns, exactly one warning, and the *)
(* suite is appended to the collection.                                    *)
(***************************************************************************)
C9_EmptyPerformanceSuite ==
    Constructed =>
        /\ Len(performanceSuites) = Len(PerformanceSuiteRecords)
        /\ \A i \in 1..Len(performanceSuites) :
             LET rec == PerformanceSuiteRecords[i]
                 suite == performanceSuites[i]
             IN rec.config.refs = <<>> =>
                  /\ suite.cls = "PerformanceSuiteEntity"
                  /\ suite.path = rec.path
                  /\ suite.children = <<>>
                  /\ \E j \in 1..Len(entities) : entities[j] = suite
                  /\ CountWarnings("noPatternRefs", rec.name)
                       = CountRecords(PerformanceSuiteRecords, rec.name)

C9_Witness ==
    /\ Constructed
    /\ \E i \in 1..Len(PerformanceSuiteRecords) :
         PerformanceSuiteRecords[i].config.refs = <<>>
    /\ \E j \in 1..Len(log) : log[j].msg = "noPatternRefs"

(***************************************************************************)
(* C10: a functional suite without test references, and a referenced       *)
(* pattern without run references, each produce exactly one warning and an *)
(* empty child sequence, and the container is still produced: the suite is *)
(* in the collection and the pattern is attached to its performance suite. *)
(***************************************************************************)
C10_EmptyContainersProduced ==
    Constructed =>
        /\ \A i \in 1..Len(FunctionalSuiteRecords) :
             LET rec == FunctionalSuiteRecords[i] IN
             rec.config.refs = <<>> =>
                 /\ \E j \in 1..Len(entities) :
                      /\ entities[j].cls = "FunctionalSuiteEntity"
                      /\ entities[j].path = rec.path
                      /\ entities[j].children = <<>>
                 /\ CountWarnings("noTestRefs", rec.name)
                      = CountRecords(FunctionalSuiteRecords, rec.name)
        /\ \A i \in 1..Len(performanceSuites) :
             \A p \in 1..Len(testFiles) :
                 LET rec == testFiles[p] IN
                 (/\ isPerformancePattern(rec)
                  /\ rec.config.name \in Range(performanceSuites[i].config.refs)
                  /\ rec.config.refs = <<>>) =>
                     \E k \in 1..Len(performanceSuites[i].children) :
                         /\ performanceSuites[i].children[k].path = rec.path
                         /\ performanceSuites[i].children[k].children = <<>>
        /\ Cardinality({j \in 1..Len(log) : log[j].msg = "noRunRefs"})
             = Cardinality({ik \in AttachedPatterns :
                              PatternAt(ik).config.refs = <<>>})

(***************************************************************************)
(* C11: getFunctionalSuiteBy(field, value) returns the first Functional    *)
(* Suite of the collection whose config has the field with a value equal   *)
(* to value, for every value (falsy ones included), or nothing; it logs a  *)
(* warning for a candidate only when the field is absent from its config.  *)
(***************************************************************************)
C11_FirstSuiteWithField ==
    lastCall.op = "getFunctionalSuiteBy" =>
        LET all == GetAllFunctionalSuites
            present(suite) == lastCall.argument \in DOMAIN suite.config
            equal(suite) == present(suite)
                            /\ suite.config[lastCall.argument] = lastCall.value
            matching == SelectSeq(all, equal)
        IN /\ lastCall.result = IF matching = <<>> THEN <<>> ELSE <<matching[1]>>
           /\ lastCall.warned = Cardinality({i \in 1..Len(all) : ~present(all[i])})

(***************************************************************************)
(* C12: every child attached during resolution is a newly created object:  *)
(* when one record is referenced by two parents each parent holds its own  *)
(* child object, no object occurs under two parents, and no child object   *)
(* is also an element of the top-level collection.                         *)
(***************************************************************************)
\* Every occurrence of an object in a list of parsed trees, parents first.
RECURSIVE Objects(_)
Objects(es) ==
    IF es = <<>> THEN <<>>
    ELSE <<Head(es)>> \o Objects(Head(es).children) \o Objects(Tail(es))

ParsedRoots == onlyFixtures \o onlyFunctionalSuites \o performanceSuites

ChildOccurrences ==
    Objects(Flatten([i \in 1..Len(ParsedRoots) |-> ParsedRoots[i].children]))

C13_LoadFailureAborts ==
    loadError =>
        /\ pc = "aborted"
        /\ testFiles = <<>>
        /\ entities = <<>>
        /\ onlyFixtures = <<>>
        /\ onlyFunctionalSuites = <<>>
        /\ performanceSuites = <<>>
        /\ allocated = 0
        /\ log = <<>>
        /\ calls = 0

C13_Witness == loadError /\ pc = "aborted" /\ Len(disk) = MaxFiles

(***************************************************************************)
(* C14: after construction, query calls leave the entity collection, the   *)
(* loaded records and every entity's children unchanged, and repeating a   *)
(* query returns the same elements in the same order.                      *)
(***************************************************************************)
QueriesReadOnly ==
    Constructed =>
        /\ entities' = entities
        /\ testFiles' = testFiles
        /\ onlyFixtures' = onlyFixtures
        /\ onlyFunctionalSuites' = onlyFunctionalSuites
        /\ performanceSuites' = performanceSuites

RepeatedQueriesAgree ==
    \A h1, h2 \in history :
        (h1.op = h2.op /\ h1.argument = h2.argument /\ h1.value = h2.value) =>
            h1.result = h2.result

C14_QueriesPure == []RepeatedQueriesAgree /\ [][QueriesReadOnly]_vars

\* The same query made twice on a manager for which it returns something.
C14_Witness ==
    /\ calls = 2
    /\ Cardinality(history) = 1
    /\ lastCall.result # <<>>

(***************************************************************************)
(* C15: the command message is sent only after the connect callback has    *)
(* fired; the process exits with code 0 only after the send callback       *)
(* reported no error; when it reports an error the error is thrown and the *)
(* process does not exit with code 0.                                      *)
(***************************************************************************)
C15_SendAfterConnectExitAfterSend ==
    /\ sent # <<>> => connected
    /\ exitCode = 0 => (sendOutcome = "ok" /\ sent # <<>>)
    /\ sendOutcome = "error" => (thrown \in SendErrors /\ exitCode # 0)
    /\ sendOutcome # "pending" => sent # <<>>

C15_Witness ==
    /\ sendOutcome = "error"
    /\ thrown = "EPIPE"
    /\ Len(sent) = 1
    /\ sent[1].type = "SCALE"

(***************************************************************************)
(* C16: storeAgent and deleteAgentById log success only when their client  *)
(* call (index / deleteByQuery) completed without failure; when the call   *)
(* fails a warning is logged and no success log follows for the operation. *)
(***************************************************************************)
C16_SuccessOnlyWithoutFailure ==
    /\ \A i \in 1..Len(storageLog) :
         storageLog[i].level = "success" =>
             storageCalls[storageLog[i].call].client = "ok"
    /\ \A call \in 1..Len(storageCalls) :
         (/\ storageCalls[call].op \in {"storeAgent", "deleteAgentById"}
          /\ storageCalls[call].client = "failed") =>
             /\ \E i \in 1..Len(storageLog) :
                    storageLog[i] = LogEntry("warn", call)
             /\ ~\E i \in 1..Len(storageLog) :
                    storageLog[i] = LogEntry("success", call)

====
